---------------------------- MODULE Spec2Model ----------------------------
(***************************************************************************)
(* Fixed-grid Crank-Nicolson pricer (src/src/pde_fixed_grid.py) and its    *)
(* tridiagonal solver, as a state machine.                                 *)
(*                                                                         *)
(* Numbers.  The program computes in IEEE-754 doubles.  Here a number is a *)
(* pair <<n, d>> of integers: d > 0 is the rational n/d in lowest terms,   *)
(* and d = 0 is one of the three non-finite doubles, <<1, 0>> = +inf,      *)
(* <<-1, 0>> = -inf, <<0, 0>> = nan.  Division by zero and arithmetic on   *)
(* inf and nan follow IEEE-754 as numpy applies it (a warning, no          *)
(* exception), with zero unsigned.  Each +, -, *, / rounds its exact       *)
(* result to the nearest binary floating-point number of prec significant  *)
(* bits, ties to even, as a double does with 53; the exponent is           *)
(* unbounded (no overflow to inf, no subnormals).  With prec = 0 nothing   *)
(* rounds: the arithmetic is that of the rationals.                        *)
(***************************************************************************)
EXTENDS Integers, Sequences, FiniteSets, TLC

\* significant bits of the arithmetic, 0 for exact arithmetic
VARIABLE prec

\* the previous pricing call: its arguments, its outcome, and the value vector
\* it left behind in the memory it freed
VARIABLE prev

---------------------------------------------------------------------------
(* Number arithmetic                                                       *)

Abs(x) == IF x < 0 THEN -x ELSE x

Sgn(x) == IF x < 0 THEN -1 ELSE IF x > 0 THEN 1 ELSE 0

RECURSIVE Gcd(_, _)
Gcd(a, b) == IF b = 0 THEN a ELSE Gcd(b, a % b)

\* n/d in lowest terms with a positive denominator; d = 0 gives inf, -inf or nan
Q(n, d) ==
    IF d = 0 THEN <<Sgn(n), 0>>
    ELSE LET g == Gcd(Abs(n), Abs(d))
         IN  <<(Sgn(d) * n) \div g, Abs(d) \div g>>

I(k) == <<k, 1>>

Zero == <<0, 1>>
One == <<1, 1>>
Half == <<1, 2>>
Two == <<2, 1>>
NaN == <<0, 0>>
PosInf == <<1, 0>>
NegInf == <<-1, 0>>

IsNaN(a) == a = NaN
IsFinite(a) == a[2] > 0
IsInf(a) == a[2] = 0 /\ a[1] # 0

Neg(a) == <<-a[1], a[2]>>

\* significant bits of the rounding arithmetic (a double has 53)
Precision == 7

\* a / d scaled by a power of two into [2^(p-1), 2^p): <<a, d, e>> with the
\* value a / d * 2^e kept
RECURSIVE Scale(_, _, _, _)
Scale(a, d, e, p) ==
    LET over  == a \div (2 ^ p) >= d
        under == a \div (2 ^ (p - 1)) < d
    IN  IF a = 0 \/ ~(over \/ under) THEN <<a, d, e>>
        ELSE Scale(IF over THEN a ELSE 2 * a, IF over THEN 2 * d ELSE d,
                   IF over THEN e + 1 ELSE e - 1, p)

\* the significand fl with twice the remainder rem2 over d, rounded to
\* nearest, ties to even
Nearest(fl, rem2, d) ==
    IF rem2 > d \/ (rem2 = d /\ fl % 2 = 1) THEN fl + 1 ELSE fl

\* sign s, significand m and exponent e as a number
Pack(s, m, e) == IF e >= 0 THEN Q(s * m * (2 ^ e), 1) ELSE Q(s * m, 2 ^ (-e))

RoundScaled(s, sc) ==
    Pack(s, Nearest(sc[1] \div sc[2], 2 * (sc[1] % sc[2]), sc[2]), sc[3])

\* round to nearest, ties to even, at prec significant bits
Round(q) ==
    IF prec = 0 \/ q[2] = 0 \/ q[1] = 0 THEN q
    ELSE RoundScaled(Sgn(q[1]), Scale(Abs(q[1]), q[2], 0, prec))

\* the exact sum, product and quotient
AddX(a, b) ==
    IF IsNaN(a) \/ IsNaN(b) THEN NaN
    ELSE IF IsInf(a) THEN (IF IsInf(b) /\ b # a THEN NaN ELSE a)
    ELSE IF IsInf(b) THEN b
    ELSE LET g == Gcd(a[2], b[2])
         IN  Q(a[1] * (b[2] \div g) + b[1] * (a[2] \div g), (a[2] \div g) * b[2])

SubX(a, b) == AddX(a, Neg(b))

MulX(a, b) ==
    IF IsNaN(a) \/ IsNaN(b) THEN NaN
    ELSE IF ~IsFinite(a) \/ ~IsFinite(b) THEN <<Sgn(a[1]) * Sgn(b[1]), 0>>
    ELSE LET g1 == Gcd(Abs(a[1]), b[2])
             g2 == Gcd(Abs(b[1]), a[2])
         IN  <<(a[1] \div g1) * (b[1] \div g2), (a[2] \div g2) * (b[2] \div g1)>>

\* IEEE division: x/0 is inf with the sign of x, 0/0 and inf/inf are nan
DivX(a, b) ==
    IF IsNaN(a) \/ IsNaN(b) THEN NaN
    ELSE IF IsInf(b) THEN (IF IsInf(a) THEN NaN ELSE Zero)
    ELSE IF b[1] = 0 THEN <<Sgn(a[1]), 0>>
    ELSE IF IsInf(a) THEN <<Sgn(a[1]) * Sgn(b[1]), 0>>
    ELSE MulX(a, <<Sgn(b[1]) * b[2], Abs(b[1])>>)

\* the machine's +, -, *, /
Add(a, b) == Round(AddX(a, b))
Sub(a, b) == Round(SubX(a, b))
Mul(a, b) == Round(MulX(a, b))
Div(a, b) == Round(DivX(a, b))

\* comparisons; any comparison with nan is false
Lt(a, b) ==
    /\ ~IsNaN(a) /\ ~IsNaN(b)
    /\ IF IsInf(a) \/ IsInf(b)
       THEN (IF IsInf(a) /\ IsInf(b) THEN a[1] < b[1]
             ELSE IF IsInf(a) THEN a[1] < 0 ELSE b[1] > 0)
       ELSE SubX(a, b)[1] < 0

Le(a, b) == ~IsNaN(a) /\ ~IsNaN(b) /\ (a = b \/ Lt(a, b))

\* Python's max(a, b): b unless a > b is false ... returns a when b > a is false
PyMax(a, b) == IF Lt(a, b) THEN b ELSE a

\* numpy.maximum(a, b), which propagates nan
NpMaximum(a, b) == IF IsNaN(a) \/ IsNaN(b) THEN NaN ELSE IF Lt(a, b) THEN b ELSE a

---------------------------------------------------------------------------
(* Bounds of the model                                                     *)

\* largest system handed directly to the solver
MaxSolverN == 3

\* grids of a pricing call: M up to MaxM, N up to MaxN, and at most MaxWork
\* unknowns solved for in one call, (M - 1) * N
MaxM == 5
MaxN == 3
MaxWork == 6

\* pricing calls made one after the other with the same arguments
MaxCalls == 2

\* arguments of a pricing call, invalid ones included
S0Vals == {0, 1, 2, 4}
KVals == {0, 1, 3}
TVals == {0, 1}
rVals == {-3, -1, 0, 1}
sigmaVals == {0, 1}
optionTypes == {"call", "put", "straddle"}
SmaxVals == {1, 2, 5}

\* entries of the systems handed directly to the solver
SubSuperVals == {-1, 1}
DiagVals == {0, 1, 2}
RhsVals == {0, 1}

---------------------------------------------------------------------------
(* _thomas_solve.  Python arrays are 0-based, sequences here 1-based: the  *)
(* code's index i is i + 1 below.                                          *)

\* an entry of numpy.empty: allocated, never written
Uninit == <<0, -1>>

NpEmpty(n) == [i \in 1..n |-> Uninit]

\* lines 25-28: rows i = 2..n (the code's range(1, n)), on the private copies
RECURSIVE ForwardSweepNoRhs(_, _, _, _, _)
ForwardSweepNoRhs(b, c, d, y, i) ==
    IF i > Len(d) THEN [d |-> d, y |-> y]
    ELSE LET w == Div(b[i - 1], d[i - 1])
         IN  ForwardSweepNoRhs(b, c, [d EXCEPT ![i] = Sub(d[i], Mul(w, c[i - 1]))], y, i + 1)

RECURSIVE ForwardSweep(_, _, _, _, _)
ForwardSweep(b, c, d, y, i) ==
    IF i > Len(d) THEN [d |-> d, y |-> y]
    ELSE LET w == Div(b[i - 1], d[i - 1])
         IN  ForwardSweep(b, c,
                          [d EXCEPT ![i] = Sub(d[i], Mul(w, c[i - 1]))],
                          [y EXCEPT ![i] = Sub(y[i], Mul(w, y[i - 1]))],
                          i + 1)

\* lines 32-33: rows i = n-1 down to 1 (the code's range(n - 2, -1, -1))
RECURSIVE BackSubstitution(_, _, _, _, _)
BackSubstitution(c, d, y, x, i) ==
    IF i < 1 THEN x
    ELSE BackSubstitution(c, d, y,
                          [x EXCEPT ![i] = Div(Sub(y[i], Mul(c[i], x[i + 1])), d[i])],
                          i - 1)

SizeMismatch == "ValueError: rhs length must match diag length"

\* What a call raises, what it returns, the pivots it divided by, and the
\* caller's four arrays as the call leaves them.
ThomasOutcome(raised, x, d, lower, diag, upper, rhs) ==
    [raised |-> raised, x |-> x, d |-> d,
     lower |-> lower, diag |-> diag, upper |-> upper, rhs |-> rhs]

\* a solver that sweeps over the caller's arrays instead of copies of them
_thomas_solve_in_place(lower, diag, upper, rhs) ==
    LET n == Len(diag)
    IN  IF Len(rhs) # n
        THEN ThomasOutcome(SizeMismatch, <<>>, <<>>, lower, diag, upper, rhs)
        ELSE LET fw == ForwardSweep(lower, upper, diag, rhs, 2)
                 xn == [NpEmpty(n) EXCEPT ![n] = Div(fw.y[n], fw.d[n])]
                 x  == BackSubstitution(upper, fw.d, fw.y, xn, n - 1)
             IN  ThomasOutcome("", x, fw.d, lower, fw.d, upper, fw.y)

\* a solver whose size check only rejects a right-hand side that is too short
_thomas_solve_short_check(lower, diag, upper, rhs) ==
    LET n == Len(diag)
    IN  IF Len(rhs) < n
        THEN ThomasOutcome(SizeMismatch, <<>>, <<>>, lower, diag, upper, rhs)
        ELSE LET fw == ForwardSweep(lower, upper, diag, rhs, 2)
                 xn == [NpEmpty(n) EXCEPT ![n] = Div(fw.y[n], fw.d[n])]
                 x  == BackSubstitution(upper, fw.d, fw.y, xn, n - 1)
             IN  ThomasOutcome("", x, fw.d, lower, diag, upper, rhs)

\* a solver whose forward sweep leaves the right-hand side as it was
_thomas_solve_stale_rhs(lower, diag, upper, rhs) ==
    LET n == Len(diag)
    IN  IF Len(rhs) # n
        THEN ThomasOutcome(SizeMismatch, <<>>, <<>>, lower, diag, upper, rhs)
        ELSE LET fw == ForwardSweepNoRhs(lower, upper, diag, rhs, 2)
                 xn == [NpEmpty(n) EXCEPT ![n] = Div(fw.y[n], fw.d[n])]
                 x  == BackSubstitution(upper, fw.d, fw.y, xn, n - 1)
             IN  ThomasOutcome("", x, fw.d, lower, diag, upper, rhs)

\* lines 14-35.  c, d, b, y are copies (lines 20-23): the caller's arrays
\* come back as they were given.
_thomas_solve(lower, diag, upper, rhs) ==
    LET n == Len(diag)
    IN  IF Len(rhs) # n
        THEN ThomasOutcome(SizeMismatch, <<>>, <<>>, lower, diag, upper, rhs)
        ELSE LET fw == ForwardSweep(lower, upper, diag, rhs, 2)
                 xn == [NpEmpty(n) EXCEPT ![n] = Div(fw.y[n], fw.d[n])]
                 x  == BackSubstitution(upper, fw.d, fw.y, xn, n - 1)
             IN  ThomasOutcome("", x, fw.d, lower, diag, upper, rhs)

---------------------------------------------------------------------------
(* src/src/config.py                                                       *)

DEFAULT_PRICE_STEPS == 200
DEFAULT_TIME_STEPS == 200
S_MAX_MULTIPLIER == 3

---------------------------------------------------------------------------
(* Values of price_european_fixed_grid                                     *)

\* Python's None where a number is expected
None == <<0, -2>>

\* a number local to the call that no statement has bound yet
Unbound == <<0, -3>>

\* int(x) of a finite number: truncation toward zero
PyInt(a) == Sgn(a[1]) * (Abs(a[1]) \div a[2])

\* math.exp on the rationals: exp(0) = 1 exactly; elsewhere exp is irrational
\* and is replaced by a positive, strictly increasing rational stand-in with
\* exp(-x) = 1 / exp(x)
MathExp(a) ==
    IF ~Lt(a, Zero) THEN Add(One, a) ELSE Div(One, Sub(One, a))

\* utils.validate_option_inputs: the message it raises with, "" when it returns
validate_option_inputs_strict_only(S0, K, T, sigma) ==
    IF Lt(S0, Zero) \/ Lt(K, Zero)
    THEN "ValueError: Stock price and strike must be positive"
    ELSE IF Lt(T, Zero) THEN "ValueError: Time to maturity must be positive"
    ELSE IF Lt(sigma, Zero) THEN "ValueError: Volatility must be positive"
    ELSE ""

validate_option_inputs(S0, K, T, sigma) ==
    IF Le(S0, Zero) \/ Le(K, Zero)
    THEN "ValueError: Stock price and strike must be positive"
    ELSE IF Le(T, Zero) THEN "ValueError: Time to maturity must be positive"
    ELSE IF Le(sigma, Zero) THEN "ValueError: Volatility must be positive"
    ELSE ""

BadOptionType == "ValueError: option_type must be 'call' or 'put'"
BadGrid == "ValueError: Need M >= 3 and N >= 1 for a meaningful grid"

\* lines 55-56
ResolveM(Marg) == PyInt(IF Marg # None THEN Marg ELSE I(DEFAULT_PRICE_STEPS))
ResolveN(Narg) == PyInt(IF Narg # None THEN Narg ELSE I(DEFAULT_TIME_STEPS))

\* lines 60-62 with the enlargement applied only when Smax is below S0
ResolveSmaxStrictlyBelow(SmaxArg, K, S0) ==
    LET Smax0 == IF SmaxArg # None THEN SmaxArg ELSE Mul(I(S_MAX_MULTIPLIER), K)
    IN  IF Lt(Smax0, S0) THEN PyMax(Smax0, Mul(Q(3, 2), S0)) ELSE Smax0

\* lines 60-62
ResolveSmax(SmaxArg, K, S0) ==
    LET Smax0 == IF SmaxArg # None THEN SmaxArg ELSE Mul(I(S_MAX_MULTIPLIER), K)
    IN  IF Le(Smax0, S0) THEN PyMax(Smax0, Mul(Q(3, 2), S0)) ELSE Smax0

\* line 67, numpy.linspace(0.0, Smax, M + 1): node j is S[j + 1]
Linspace(SmaxR, Mr) ==
    LET step == Div(SmaxR, I(Mr))
    IN  [k \in 1..(Mr + 1) |-> IF k = Mr + 1 THEN SmaxR ELSE Mul(I(k - 1), step)]

\* the value vector allocated but not written: it holds what the previous
\* call left in the memory it freed, when that fits
PayoffOverFreedMemory(option_type, Sg, K) ==
    IF Len(prev.V) = Len(Sg) THEN prev.V
    ELSE [k \in 1..Len(Sg) |->
            IF option_type = "call" THEN NpMaximum(Sub(Sg[k], K), Zero)
            ELSE NpMaximum(Sub(K, Sg[k]), Zero)]

\* lines 69-72
Payoff(option_type, Sg, K) ==
    [k \in 1..Len(Sg) |->
        IF option_type = "call" THEN NpMaximum(Sub(Sg[k], K), Zero)
        ELSE NpMaximum(Sub(K, Sg[k]), Zero)]

\* lines 74-75: interior nodes i = 1..M-1; entry k is node k
Interior(arr) == [k \in 1..(Len(arr) - 2) |-> arr[k + 1]]

\* lines 77-82
CoefAlpha(sigma, Si) == [k \in 1..Len(Si) |-> Mul(Mul(Mul(Mul(Half, sigma), sigma), Si[k]), Si[k])]
CoefBeta(r, Si) == [k \in 1..Len(Si) |-> Mul(r, Si[k])]

CoefA(alpha, beta, dSr) ==
    [k \in 1..Len(alpha) |->
        Sub(Div(alpha[k], Mul(dSr, dSr)), Div(beta[k], Mul(Two, dSr)))]

CoefB(alpha, r, dSr) ==
    [k \in 1..Len(alpha) |->
        Sub(Div(Mul(Neg(Two), alpha[k]), Mul(dSr, dSr)), r)]

CoefC(alpha, beta, dSr) ==
    [k \in 1..Len(alpha) |->
        Add(Div(alpha[k], Mul(dSr, dSr)), Div(beta[k], Mul(Two, dSr)))]

\* arr[1:] and arr[:-1]
DropFirst(arr) == [k \in 1..(Len(arr) - 1) |-> arr[k + 1]]
DropLast(arr) == [k \in 1..(Len(arr) - 1) |-> arr[k]]

\* lines 85-91: scale * dt * arr, and 1 + scale * dt * arr
Scaled(scale, dtr, arr) == [k \in 1..Len(arr) |-> Mul(Mul(scale, dtr), arr[k])]
OnePlusScaled(scale, dtr, arr) ==
    [k \in 1..Len(arr) |-> Add(One, Mul(Mul(scale, dtr), arr[k]))]

\* lines 93-96: no surface, or N + 1 rows of numpy.empty with row 0 written
NoSurface == <<>>
InitSurface(return_grid, Nr, Mr, V0) ==
    IF return_grid
    THEN [k \in 1..(Nr + 1) |-> IF k = 1 THEN V0 ELSE NpEmpty(Mr + 1)]
    ELSE NoSurface

\* lines 102-111: the boundary values at backward time tau
BoundaryLow(option_type, K, r, tau) ==
    IF option_type = "call" THEN Zero ELSE Mul(K, MathExp(Mul(Neg(r), tau)))

BoundaryHigh(option_type, K, r, tau, SmaxR) ==
    IF option_type = "call" THEN Sub(SmaxR, Mul(K, MathExp(Mul(Neg(r), tau)))) ELSE Zero

\* lines 113-114
WriteEnds(Vv, lo, hi) ==
    [k \in 1..Len(Vv) |-> IF k = 1 THEN lo ELSE IF k = Len(Vv) THEN hi ELSE Vv[k]]

\* lines 116-122
BuildRhs(V_in, lowerR, diagR, upperR, Aa, Cc, dtr, V0_n, V0_np1, VM_n, VM_np1) ==
    LET m  == Len(V_in)
        r0 == [k \in 1..m |-> Mul(diagR[k], V_in[k])]
        r1 == [k \in 1..m |-> IF k >= 2 THEN Add(r0[k], Mul(lowerR[k - 1], V_in[k - 1]))
                                        ELSE r0[k]]
        r2 == [k \in 1..m |-> IF k <= m - 1 THEN Add(r1[k], Mul(upperR[k], V_in[k + 1]))
                                            ELSE r1[k]]
        r3 == [r2 EXCEPT ![1] = Add(r2[1], Mul(Mul(Mul(Half, dtr), Aa[1]), Add(V0_n, V0_np1)))]
    IN  [r3 EXCEPT ![m] = Add(r3[m], Mul(Mul(Mul(Half, dtr), Cc[m]), Add(VM_n, VM_np1)))]

\* lines 126-128 with the far node left as the step started it
OverwriteKeepingFarNode(Vv, V0_np1, V_new_in, VM_np1) ==
    [k \in 1..Len(Vv) |->
        IF k = 1 THEN V0_np1 ELSE IF k = Len(Vv) THEN Vv[k] ELSE V_new_in[k - 1]]

\* lines 126-128 without line 127: the solver's output is never stored
OverwriteBoundariesOnly(Vv, V0_np1, V_new_in, VM_np1) ==
    [k \in 1..Len(Vv) |->
        IF k = 1 THEN V0_np1 ELSE IF k = Len(Vv) THEN VM_np1 ELSE Vv[k]]

\* lines 126-128
Overwrite(Vv, V0_np1, V_new_in, VM_np1) ==
    [k \in 1..Len(Vv) |->
        IF k = 1 THEN V0_np1 ELSE IF k = Len(Vv) THEN VM_np1 ELSE V_new_in[k - 1]]

\* line 131 writing row n instead of row n + 1
RecordRowOffByOne(surf, nn, Vv) == [surf EXCEPT ![nn + 1] = Vv]

\* line 131: surface[n + 1, :] = V; the code's row n + 1 is surf[n + 2]
RecordRow(surf, nn, Vv) == [surf EXCEPT ![nn + 2] = Vv]

\* line 133, numpy.interp(x, xp, fp) for xp[1] <= x <= xp[Len(xp)]
NpInterp(x, xp, fp) ==
    LET j == CHOOSE k \in 1..Len(xp) :
                 /\ Le(xp[k], x)
                 /\ \A l \in (k + 1)..Len(xp) : ~Le(xp[l], x)
    IN  IF j = Len(xp) \/ xp[j] = x THEN fp[j]
        ELSE LET slope == Div(Sub(fp[j + 1], fp[j]), Sub(xp[j + 1], xp[j]))
             IN  Add(Mul(slope, Sub(x, xp[j])), fp[j])

---------------------------------------------------------------------------
(* State                                                                   *)

VARIABLES
    args,     \* the arguments of the pricing call
    pc,       \* where the call is: "call", "grid", "setup", "loop",
              \* "returned", "raised"; "off" when no pricing call is modelled
    raised,   \* the message of the exception the call ended with, or ""
    out,      \* what the call returned
    M, N,     \* lines 55-56
    Smax, dS, dt,
    S, V,
    A, B, C,
    lower_L, diag_L, upper_L,
    lower_R, diag_R, upper_R,
    surface,
    n,        \* the loop variable of line 98: time steps done
    hist,     \* history: the value vector as each time step left it
    solves,   \* history: calls of _thomas_solve made by this pricing call
    step,     \* history: the last pass of the loop body, see TimeStep
    adaptive, \* a caller's use of price_option_adaptive_time, see UseAdaptive
    calls,    \* pricing calls completed
    sys,      \* the four arrays of a direct solver call
    sol,      \* its outcome
    spc       \* "ready", "returned" or "raised"; "off" when none is modelled

grid == <<Smax, dS, dt, S, A, B, C>>
operators == <<lower_L, diag_L, upper_L, lower_R, diag_R, upper_R>>
locals == <<M, N, grid, operators, V, surface, n>>
solver == <<sys, sol, spc>>
vars == <<prec, adaptive, args, pc, raised, out, locals, hist, solves, step, calls, prev, solver>>

NoOutcome == ThomasOutcome("", <<>>, <<>>, <<>>, <<>>, <<>>, <<>>)
NoResult == [kind |-> "none", price |-> Unbound, info |-> <<>>]
NoPrev == [args |-> <<>>, raised |-> "", out |-> NoResult, V |-> <<>>]
NoStep ==
    [n |-> -1, V_start |-> <<>>, V_bc |-> <<>>, V_in |-> <<>>, rhs |-> <<>>,
     res |-> NoOutcome]
NoException == [kind |-> "", msg |-> ""]
AdaptiveOff ==
    adaptive = [imported_as |-> "", args |-> <<>>, pc |-> "off",
                raised |-> NoException, out |-> NoResult]

\* integer entries as numbers
Nums(seq) == [i \in 1..Len(seq) |-> I(seq[i])]

IntSeqs(len, vals) == [1..len -> vals]

\* a fresh frame: nothing is bound but the parameters
FreshLocals ==
    /\ M = 0 /\ N = 0
    /\ Smax = Unbound /\ dS = Unbound /\ dt = Unbound
    /\ S = <<>> /\ V = <<>>
    /\ A = <<>> /\ B = <<>> /\ C = <<>>
    /\ lower_L = <<>> /\ diag_L = <<>> /\ upper_L = <<>>
    /\ lower_R = <<>> /\ diag_R = <<>> /\ upper_R = <<>>
    /\ surface = NoSurface
    /\ n = 0

PricingOff ==
    /\ args = <<>> /\ pc = "off" /\ raised = "" /\ out = NoResult
    /\ FreshLocals
    /\ hist = <<>> /\ solves = 0 /\ step = NoStep /\ calls = 0 /\ prev = NoPrev

SolverOff == sys = <<>> /\ sol = NoOutcome /\ spc = "off"

---------------------------------------------------------------------------
(* A direct call of _thomas_solve                                          *)

SolverInit ==
    /\ prec \in {0, Precision}
    /\ AdaptiveOff
    /\ PricingOff
    /\ spc = "ready"
    /\ sol = NoOutcome
    /\ \E len \in 1..MaxSolverN :
       \E m \in {len - 1, len, len + 1} :
       \E lo \in IntSeqs(len - 1, SubSuperVals), di \in IntSeqs(len, DiagVals),
          up \in IntSeqs(len - 1, SubSuperVals), rh \in IntSeqs(m, RhsVals) :
            sys = [lower |-> Nums(lo), diag |-> Nums(di),
                   upper |-> Nums(up), rhs |-> Nums(rh)]

SolverCall ==
    /\ spc = "ready"
    /\ sol' = _thomas_solve(sys.lower, sys.diag, sys.upper, sys.rhs)
    /\ spc' = IF sol'.raised = "" THEN "returned" ELSE "raised"
    /\ UNCHANGED <<prec, adaptive, sys, args, pc, raised, out, locals, hist, solves, step, calls, prev>>

SolverNext == SolverCall

SolverSpec == SolverInit /\ [][SolverNext]_vars

---------------------------------------------------------------------------
(* price_european_fixed_grid                                               *)

GridArgs ==
    {g \in (2..MaxM) \X (0..MaxN) : (g[1] - 1) * g[2] <= MaxWork}

Init ==
    /\ prec \in {0, Precision}
    /\ AdaptiveOff
    /\ SolverOff
    /\ pc = "call" /\ raised = "" /\ out = NoResult
    /\ FreshLocals
    /\ hist = <<>> /\ solves = 0 /\ step = NoStep /\ calls = 0 /\ prev = NoPrev
    /\ \E s0 \in S0Vals, k \in KVals, t \in TVals, rr \in rVals, sg \in sigmaVals,
          ot \in optionTypes, g \in GridArgs,
          sm \in {None} \cup {I(x) : x \in SmaxVals}, rg \in BOOLEAN :
            args = [S0 |-> I(s0), K |-> I(k), T |-> I(t), r |-> I(rr),
                    sigma |-> I(sg), option_type |-> ot,
                    M |-> I(g[1]), N |-> I(g[2]), Smax |-> sm, return_grid |-> rg]
    \* a call that lines 51-53 reject does no arithmetic: one arithmetic
    \* stands for both there
    /\ prec # 0 =>
          /\ validate_option_inputs(args.S0, args.K, args.T, args.sigma) = ""
          /\ args.option_type \in {"call", "put"}

Raise(msg) ==
    /\ pc' = "raised"
    /\ raised' = msg

\* lines 51-53
ValidateParams ==
    /\ pc = "call"
    /\ LET msg == validate_option_inputs(args.S0, args.K, args.T, args.sigma)
       IN  IF msg # "" THEN Raise(msg)
           ELSE IF args.option_type \notin {"call", "put"} THEN Raise(BadOptionType)
           ELSE pc' = "grid" /\ UNCHANGED raised
    /\ UNCHANGED <<prec, adaptive, args, out, locals, hist, solves, step, calls, prev, solver>>

\* lines 55-58
ValidateGrid ==
    /\ pc = "grid"
    /\ M' = ResolveM(args.M)
    /\ N' = ResolveN(args.N)
    /\ IF M' < 3 \/ N' < 1 THEN Raise(BadGrid)
       ELSE pc' = "setup" /\ UNCHANGED raised
    /\ UNCHANGED <<prec, adaptive, args, out, grid, operators, V, surface, n, hist,
                   solves, step, calls, prev, solver>>

\* lines 60-96
Setup ==
    /\ pc = "setup"
    /\ Smax' = ResolveSmax(args.Smax, args.K, args.S0)
    /\ dS' = Div(Smax', I(M))
    /\ dt' = Div(args.T, I(N))
    /\ S' = Linspace(Smax', M)
    /\ V' = Payoff(args.option_type, S', args.K)
    /\ LET S_i   == Interior(S')
           alpha == CoefAlpha(args.sigma, S_i)
           beta  == CoefBeta(args.r, S_i)
       IN  /\ A' = CoefA(alpha, beta, dS')
           /\ B' = CoefB(alpha, args.r, dS')
           /\ C' = CoefC(alpha, beta, dS')
    /\ lower_L' = Scaled(Neg(Half), dt', DropFirst(A'))
    /\ diag_L' = OnePlusScaled(Neg(Half), dt', B')
    /\ upper_L' = Scaled(Neg(Half), dt', DropLast(C'))
    /\ lower_R' = Scaled(Half, dt', DropFirst(A'))
    /\ diag_R' = OnePlusScaled(Half, dt', B')
    /\ upper_R' = Scaled(Half, dt', DropLast(C'))
    /\ surface' = InitSurface(args.return_grid, N, M, V')
    /\ n' = 0
    /\ pc' = "loop"
    /\ UNCHANGED <<prec, adaptive, args, raised, out, M, N, hist, solves, step, calls, prev, solver>>

\* lines 98-131, one pass of the loop body
TimeStep ==
    /\ pc = "loop"
    /\ n < N
    /\ LET tau_n   == Mul(I(n), dt)
           tau_np1 == Mul(I(n + 1), dt)
           V0_n    == BoundaryLow(args.option_type, args.K, args.r, tau_n)
           VM_n    == BoundaryHigh(args.option_type, args.K, args.r, tau_n, Smax)
           V0_np1  == BoundaryLow(args.option_type, args.K, args.r, tau_np1)
           VM_np1  == BoundaryHigh(args.option_type, args.K, args.r, tau_np1, Smax)
           V1      == WriteEnds(V, V0_n, VM_n)
           V_in    == Interior(V1)
           rhs     == BuildRhs(V_in, lower_R, diag_R, upper_R, A, C, dt,
                               V0_n, V0_np1, VM_n, VM_np1)
           res     == _thomas_solve(lower_L, diag_L, upper_L, rhs)
       IN  /\ lower_L' = res.lower
           /\ diag_L' = res.diag
           /\ upper_L' = res.upper
           /\ solves' = solves + 1
           /\ step' = [n |-> n, V_start |-> V, V_bc |-> V1, V_in |-> V_in,
                       rhs |-> rhs, res |-> res]
           /\ IF res.raised # ""
              THEN /\ Raise(res.raised)
                   /\ V' = V1
                   /\ UNCHANGED <<surface, n, hist>>
              ELSE /\ V' = Overwrite(V1, V0_np1, res.x, VM_np1)
                   /\ surface' = IF args.return_grid THEN RecordRow(surface, n, V')
                                 ELSE surface
                   /\ hist' = Append(hist, V')
                   /\ n' = n + 1
                   /\ UNCHANGED <<pc, raised>>
    /\ UNCHANGED <<prec, adaptive, args, out, M, N, grid, lower_R, diag_R, upper_R, calls, prev, solver>>

\* lines 138-147
Info ==
    [S_grid |-> S, V_tau_T |-> V, dS |-> dS, dt |-> dt, M |-> M, N |-> N,
     Smax |-> Smax, surface |-> surface]

\* lines 133-148
Finalize ==
    /\ pc = "loop"
    /\ n = N
    /\ LET price == NpInterp(args.S0, S, V)
       IN  out' = IF ~args.return_grid
                  THEN [kind |-> "float", price |-> price, info |-> <<>>]
                  ELSE [kind |-> "tuple", price |-> price, info |-> Info]
    /\ pc' = "returned"
    /\ UNCHANGED <<prec, adaptive, args, raised, locals, hist, solves, step, calls, prev, solver>>

\* the caller makes the same call again: a new frame, nothing bound
CallAgain ==
    /\ pc \in {"returned", "raised"}
    /\ calls + 1 < MaxCalls
    /\ calls' = calls + 1
    /\ prev' = [args |-> args, raised |-> raised, out |-> out, V |-> V]
    /\ pc' = "call" /\ raised' = "" /\ out' = NoResult
    /\ M' = 0 /\ N' = 0
    /\ Smax' = Unbound /\ dS' = Unbound /\ dt' = Unbound
    /\ S' = <<>> /\ V' = <<>>
    /\ A' = <<>> /\ B' = <<>> /\ C' = <<>>
    /\ lower_L' = <<>> /\ diag_L' = <<>> /\ upper_L' = <<>>
    /\ lower_R' = <<>> /\ diag_R' = <<>> /\ upper_R' = <<>>
    /\ surface' = NoSurface
    /\ n' = 0
    /\ hist' = <<>> /\ solves' = 0 /\ step' = NoStep
    /\ UNCHANGED <<prec, adaptive, args, solver>>

Next ==
    \/ ValidateParams
    \/ ValidateGrid
    \/ Setup
    \/ TimeStep
    \/ Finalize
    \/ CallAgain

Spec == Init /\ [][Next]_vars

---------------------------------------------------------------------------
(* pde_adaptive_time                                                       *)

\* the names config.py binds
ConfigNames ==
    {"DEFAULT_PRICE_STEPS", "DEFAULT_TIME_STEPS", "S_MAX_MULTIPLIER",
     "ERROR_TOLERANCE", "BENCHMARK_RUNS"}

Exception(kind, msg) == [kind |-> kind, msg |-> msg]

\* the ways a caller loads the module: as the tests and scripts do, with
\* src/ on sys.path, or as a member of the package
ImportWays == {"top-level", "package"}

\* pde_adaptive_time.py line 11, from .config import PDEConfig: what running
\* it raises, NoException when it binds the name
ImportFromConfig(imported_as, name) ==
    IF imported_as = "top-level"
    THEN Exception("ImportError",
                   "attempted relative import with no known parent package")
    ELSE IF name \notin ConfigNames
    THEN Exception("ImportError", "cannot import name from config")
    ELSE NoException

\* lines 14-52: the body raises whatever it is given
price_option_adaptive_time(spot, strike, rate, volatility, time_to_expiry, num_space_points, option_type) ==
    Exception("NotImplementedError",
              "Adaptive time-stepping solver not yet implemented")

num_space_pointsVals == {2, 201}

AdaptiveInit ==
    /\ prec = 0
    /\ PricingOff
    /\ SolverOff
    /\ \E w \in ImportWays, s0 \in S0Vals, k \in KVals, rr \in rVals,
          sg \in sigmaVals, t \in TVals, np \in num_space_pointsVals,
          ot \in optionTypes :
            adaptive = [imported_as |-> w,
                        args |-> [spot |-> I(s0), strike |-> I(k), rate |-> I(rr),
                                  volatility |-> I(sg), time_to_expiry |-> I(t),
                                  num_space_points |-> np, option_type |-> ot],
                        pc |-> "start", raised |-> NoException, out |-> NoResult]

\* a caller's use of the function, as tests/test_pde_adaptive_time.py makes
\* it: the import of line 13 runs the module, then lines 31-40 call
UseAdaptive ==
    /\ adaptive.pc = "start"
    /\ LET imp == ImportFromConfig(adaptive.imported_as, "PDEConfig")
           a   == adaptive.args
       IN  adaptive' =
             [adaptive EXCEPT
                !.pc = "raised",
                !.raised = IF imp # NoException THEN imp
                           ELSE price_option_adaptive_time(
                                    a.spot, a.strike, a.rate, a.volatility,
                                    a.time_to_expiry, a.num_space_points,
                                    a.option_type)]
    /\ UNCHANGED <<prec, args, pc, raised, out, locals, hist, solves, step, calls,
                   prev, solver>>

AdaptiveNext == UseAdaptive

AdaptiveSpec == AdaptiveInit /\ [][AdaptiveNext]_vars

---------------------------------------------------------------------------
(* Properties                                                              *)

InvalidParams ==
    \/ Le(args.S0, Zero) \/ Le(args.K, Zero) \/ Le(args.T, Zero)
    \/ Le(args.sigma, Zero)
    \/ args.option_type \notin {"call", "put"}

InvalidGrid == PyInt(args.M) < 3 \/ PyInt(args.N) < 1

ParamMessages ==
    {"ValueError: Stock price and strike must be positive",
     "ValueError: Time to maturity must be positive",
     "ValueError: Volatility must be positive",
     BadOptionType}

NothingBuilt ==
    /\ Smax = Unbound /\ dS = Unbound /\ dt = Unbound
    /\ S = <<>> /\ V = <<>> /\ A = <<>> /\ B = <<>> /\ C = <<>>
    /\ lower_L = <<>> /\ diag_L = <<>> /\ upper_L = <<>>
    /\ lower_R = <<>> /\ diag_R = <<>> /\ upper_R = <<>>
    /\ surface = NoSurface /\ solves = 0

\* C1: a pricing call with S0 <= 0, K <= 0, T <= 0, sigma <= 0, an unknown
\* option type, M < 3 or N < 1 never returns: it ends raising a validation
\* error, with no price and no diagnostics; invalid parameters are reported
\* before the grid sizes are even resolved, and whenever a check fails no
\* grid, value vector, coefficient or operator array has been built.
C1_InvalidInputsRaise ==
    /\ (InvalidParams \/ InvalidGrid) =>
          /\ pc \in {"call", "grid", "raised"}
          /\ out = NoResult
          /\ NothingBuilt
          /\ pc = "raised" => raised \in ParamMessages \cup {BadGrid}
    /\ InvalidParams =>
          /\ pc \in {"call", "raised"}
          /\ M = 0 /\ N = 0
          /\ pc = "raised" => raised \in ParamMessages
    /\ (~InvalidParams /\ InvalidGrid /\ pc = "raised") => raised = BadGrid

\* C1, its case: both the spot and the grid are invalid, and the call has
\* raised the parameter error without resolving the grid sizes
C1_Witness ==
    /\ pc = "raised"
    /\ Le(args.S0, Zero) /\ PyInt(args.M) < 3
    /\ raised = "ValueError: Stock price and strike must be positive"
    /\ M = 0 /\ out = NoResult

\* the boundary formula at backward time k * dt, at node 0 and at node M
AtBoundaryFormula(row, k) ==
    LET tau  == Mul(I(k), dt)
        disc == Mul(args.K, MathExp(Mul(Neg(args.r), tau)))
    IN  IF args.option_type = "call"
        THEN row[1] = Zero /\ row[M + 1] = Sub(Smax, disc)
        ELSE row[1] = disc /\ row[M + 1] = Zero

C3_PriceWithinBounds ==
    pc = "returned" =>
        /\ IsFinite(out.price)
        /\ Le(Zero, out.price)
        /\ args.option_type = "call" => Lt(out.price, args.S0)
        /\ args.option_type = "put" =>
              Lt(out.price, Mul(args.K, MathExp(Mul(Neg(args.r), args.T))))

\* C4: once resolved, Smax is 3*K when none was given, max(Smax, 1.5*S0)
\* when that or the given value does not exceed S0, and the given value
\* otherwise; it always exceeds S0, so 0 < S0 < Smax and the spot lies
\* strictly between the first and the last node of the grid.
C4_SpotInsideGrid ==
    (pc \in {"loop", "returned"}) =>
        LET base == IF args.Smax = None THEN Mul(I(3), args.K) ELSE args.Smax
        IN  /\ Smax = IF Le(base, args.S0)
                      THEN (IF Lt(base, Mul(Q(3, 2), args.S0))
                            THEN Mul(Q(3, 2), args.S0) ELSE base)
                      ELSE base
            /\ Lt(Zero, args.S0) /\ Lt(args.S0, Smax)
            /\ Len(S) = M + 1
            /\ S[1] = Zero /\ S[M + 1] = Smax
            /\ Lt(S[1], args.S0) /\ Lt(args.S0, S[M + 1])

\* C4, its case: the caller gave an Smax equal to the spot and the grid was
\* built on 1.5 * S0
C4_Witness ==
    /\ pc = "loop"
    /\ args.Smax = args.S0
    /\ Smax = Mul(Q(3, 2), args.S0)
    /\ S[M + 1] = Smax

\* a divisor of the sweeps, a pivot d[i], was exactly zero
ZeroDivisor == \E i \in 1..Len(sol.d) : sol.d[i] = Zero

\* the left-hand side of row i of the tridiagonal system at x minus its
\* right-hand side, in the arithmetic of the rationals
Residual(i, x) ==
    LET len   == Len(sys.diag)
        left  == IF i > 1 THEN MulX(sys.lower[i - 1], x[i - 1]) ELSE Zero
        right == IF i < len THEN MulX(sys.upper[i], x[i + 1]) ELSE Zero
    IN  SubX(AddX(AddX(left, MulX(sys.diag[i], x[i])), right), sys.rhs[i])

RowHolds(i, x) == Residual(i, x) = Zero

AbsQ(a) == <<Abs(a[1]), a[2]>>

\* the largest of 1 and the magnitudes of x[1..k]
RECURSIVE MaxAbs(_, _)
MaxAbs(x, k) == IF k = 0 THEN One ELSE PyMax(MaxAbs(x, k - 1), AbsQ(x[k]))

\* the unit round-off of the arithmetic, 2^-prec
UnitRoundoff == Q(1, 2 ^ prec)

\* row i holds at x up to the rounding of the solve: its residual is at most
\* 2n unit round-offs of the largest magnitude in x (or of 1)
RowHoldsToRounding(i, x) ==
    LET len == Len(sys.diag)
    IN  Le(AbsQ(Residual(i, x)),
           MulX(MulX(I(2 * len), UnitRoundoff), MaxAbs(x, len)))

KnownSystem ==
    [lower |-> <<I(-1), I(-1)>>, diag |-> <<I(2), I(2), I(2)>>,
     upper |-> <<I(-1), I(-1)>>, rhs |-> <<I(1), I(0), I(1)>>]

C6_ZeroDivisorRaises ==
    (spc # "ready" /\ ZeroDivisor) => spc = "raised"

\* the operator arrays as lines 85-91 assemble them from A, B, C and dt
OperatorsAsAssembled ==
    /\ lower_L = Scaled(Neg(Half), dt, DropFirst(A))
    /\ diag_L = OnePlusScaled(Neg(Half), dt, B)
    /\ upper_L = Scaled(Neg(Half), dt, DropLast(C))
    /\ lower_R = Scaled(Half, dt, DropFirst(A))
    /\ diag_R = OnePlusScaled(Half, dt, B)
    /\ upper_R = Scaled(Half, dt, DropLast(C))

\* C7: _thomas_solve leaves the arrays it is given as they were, so at every
\* time step and after the last the implicit-operator arrays and the
\* explicit-operator arrays are the ones assembled before the loop.
C7_OperatorsUnchanged ==
    (pc \in {"loop", "returned"}) =>
        /\ OperatorsAsAssembled
        /\ Len(diag_L) = M - 1 /\ Len(lower_L) = M - 2 /\ Len(upper_L) = M - 2

\* C7, its case: the solver has been called three times on the same arrays
C7_Witness ==
    /\ pc = "returned" /\ solves = 3
    /\ Len(diag_L) = 2 /\ diag_L[2] # One
    /\ OperatorsAsAssembled

IsPayoff(row) ==
    /\ Len(row) = M + 1
    /\ \A k \in 1..(M + 1) :
          LET x == IF args.option_type = "call" THEN Sub(S[k], args.K)
                   ELSE Sub(args.K, S[k])
          IN  row[k] = IF Lt(Zero, x) THEN x ELSE Zero

\* C9: with return_grid the call returns the price and a surface of N + 1
\* rows of M + 1 entries: row 0 the payoff, row n + 1 the value vector as
\* step n left it, row N the final value vector; without it no surface is
\* ever made and the call returns the price alone.
C9_Surface ==
    /\ (pc \in {"call", "grid", "setup", "loop", "returned", "raised"}
          /\ ~args.return_grid) => surface = NoSurface
    /\ (pc = "returned" /\ ~args.return_grid) =>
          out.kind = "float" /\ out.info = <<>>
    /\ (pc = "returned" /\ args.return_grid) =>
          /\ out.kind = "tuple"
          /\ out.info.surface = surface
          /\ Len(surface) = N + 1
          /\ \A k \in 1..(N + 1) : Len(surface[k]) = M + 1
          /\ IsPayoff(surface[1])
          /\ Len(hist) = N
          /\ \A k \in 1..N : surface[k + 1] = hist[k]
          /\ surface[N + 1] = out.info.V_tau_T
          /\ out.info.V_tau_T = V

\* C9, its case: a returned surface of four rows whose rows all differ
C9_Witness ==
    /\ pc = "returned" /\ args.return_grid /\ N = 3
    /\ Len(out.info.surface) = 4
    /\ out.info.surface[1] # out.info.surface[2]
    /\ out.info.surface[2] # out.info.surface[3]
    /\ out.info.surface[4] = V

\* C10: when the right-hand side and the main diagonal differ in length,
\* _thomas_solve raises the size-mismatch error and computes nothing.
C10_SizeMismatchRaises ==
    (spc # "ready" /\ Len(sys.rhs) # Len(sys.diag)) =>
        /\ spc = "raised"
        /\ sol.raised = SizeMismatch
        /\ sol.x = <<>> /\ sol.d = <<>>

\* C10, its case: a right-hand side one entry longer than the diagonal was
\* refused
C10_Witness ==
    /\ spc = "raised" /\ Len(sys.rhs) = Len(sys.diag) + 1
    /\ sol.raised = SizeMismatch /\ sol.x = <<>>

\* C11: price_option_adaptive_time signals NotImplementedError on every
\* call, whatever its arguments, never returns a price, and that signal is
\* not the ValueError of the fixed-grid pricer.
C11_AlwaysNotImplemented ==
    adaptive.pc = "raised" =>
        /\ adaptive.raised.kind = "NotImplementedError"
        /\ adaptive.raised.kind # "ValueError"
        /\ adaptive.out = NoResult

\* C13: for every valid input the solver-layer failures never arise inside
\* a pricing call: every time step calls the solver with sub- and
\* super-diagonals of length M-2 and main diagonal and right-hand side of
\* length M-1, and no divisor of the forward sweep or the back substitution
\* is zero.
C13_NoSolverFailure ==
    step.n >= 0 =>
        /\ Len(step.res.lower) = M - 2 /\ Len(step.res.upper) = M - 2
        /\ Len(step.res.diag) = M - 1 /\ Len(step.rhs) = M - 1
        /\ step.res.raised = ""
        /\ \A i \in 1..Len(step.res.d) : step.res.d[i] # Zero

\* C14: for valid inputs a pricing call makes exactly N time steps, in the
\* order n = 0, 1, ..., N-1, and then returns; each step builds its
\* right-hand side from the interior values the previous step left (the
\* payoff for n = 0), calls the solver exactly once, and only then overwrites
\* the interior nodes with the solver's output and the boundary nodes with
\* the tau_{n+1} values.
C14_StepsInOrder ==
    /\ pc \in {"loop", "returned"} =>
          /\ n <= N /\ solves = n /\ Len(hist) = n /\ step.n = n - 1
          /\ \A k \in 1..n : AtBoundaryFormula(hist[k], k)
          /\ n >= 1 =>
                /\ IF n = 1 THEN IsPayoff(step.V_start)
                   ELSE step.V_start = hist[n - 1]
                /\ step.V_in = Interior(step.V_start)
                /\ step.V_in = Interior(step.V_bc)
                /\ step.res.rhs = step.rhs /\ step.res.raised = ""
                /\ V = hist[n] /\ Interior(V) = step.res.x
    /\ pc = "returned" => n = N

\* C14, its case: a call of three steps has returned, each step having
\* changed the interior values
C14_Witness ==
    /\ pc = "returned" /\ N = 3 /\ solves = 3 /\ step.n = 2
    /\ Interior(hist[1]) # Interior(hist[2])
    /\ Interior(hist[2]) # Interior(hist[3])
    /\ step.V_in = Interior(hist[2]) /\ step.res.x = Interior(V)

\* C15: at the start of every time step n, writing the tau_n boundary values
\* into nodes 0 and M leaves the value vector as it was: for n >= 1 they are
\* the values the end of step n-1 wrote, for n = 0 the terminal payoff at
\* S = 0 and S = Smax, for every valid input, a supplied Smax below K
\* included.
C15_BoundaryWriteChangesNothing ==
    step.n >= 0 => step.V_bc = step.V_start

=========================================================================
